---- MODULE Spec2Model ----
(***************************************************************************)
(* travis-job: trigger one Travis build, poll for its result, report it    *)
(* through the process exit status.                                        *)
(*                                                                         *)
(* The model follows cmd main (POLL_INTERVAL variant) and pkg/travis:      *)
(*   main -> NewJob -> Execute -> triggerBuild -> pollForResult            *)
(*        -> reportStatus -> os.Exit                                       *)
(* with one foreground goroutine (fg) and the ticker goroutine (bg) that   *)
(* pollForResult spawns.  Time is abstract: the ticker and the 40 minute   *)
(* timer fire whenever they are armed.  ticker.C is a runtime channel of   *)
(* capacity 1 whose pending tick survives ticker.Stop().                   *)
(***************************************************************************)
EXTENDS Integers, Sequences, FiniteSets, TLC

VARIABLES
    pollIntervalEnv,  \* POLL_INTERVAL in the environment
    pollInterval,     \* Job.pollInterval
    pc_fg,            \* position of the main goroutine
    pc_bg,            \* position of the ticker goroutine of pollForResult
    requestID,        \* requestID returned by triggerBuild
    trigErr,          \* err returned by triggerBuild
    triggerCalls,     \* trigger requests handed to the HTTP client
    c,                \* handoff channel, make(chan build, 1)
    sentBuildID,      \* pollForResult's sentBuildID
    tickerRunning,    \* ticker created and not stopped
    tickC,            \* ticks pending in ticker.C (capacity 1)
    ticks,            \* ticks fired so far
    bgResp,           \* status response the in-flight call has received
    bgB,              \* b of the current tick
    bgErr,            \* err of the current tick
    selected,         \* case the select of pollForResult resolved with
    fgB,              \* b received from c by the select
    pollRet,          \* what pollForResult returned
    repID,            \* reportStatus argument buildID
    repState,         \* reportStatus argument status
    log,              \* lines written to the log
    sent,             \* builds sent into c
    firstDone,        \* first build fetched whose state is in the Done set
    exited,           \* the process has terminated
    exitCode          \* its exit status

envVars == <<pollIntervalEnv, pollInterval>>
trigVars == <<requestID, trigErr, triggerCalls>>
bgVars == <<pc_bg, sentBuildID, bgResp, bgB, bgErr, firstDone>>
tickVars == <<tickerRunning, tickC, ticks>>
selVars == <<selected, fgB, pollRet>>
repVars == <<repID, repState>>
exitVars == <<exited, exitCode>>

vars == <<pollIntervalEnv, pollInterval, pc_fg, pc_bg, requestID, trigErr,
          triggerCalls, c, sentBuildID, tickerRunning, tickC, ticks, bgResp,
          bgB, bgErr, selected, fgB, pollRet, repID, repState, log, sent,
          firstDone, exited, exitCode>>

\* ------------------------------------------------------------------ bounds
MaxTicks == 3
MaxBuilds == 2

\* --------------------------------------------------------------- constants
ChanCap == 1
TickCap == 1
DefaultPollInterval == <<"3", "0">>

NoErr == "nil"
TimeoutErr == "timed out waiting for build result"
NoBuildsErr == "no builds found"
NoExit == 0 - 1

\* ---------------------------------------------------------- pkg/travis data
travisSuccessTermSet == {"passed"}

\* variant: a Done state is missing from the Failure table
travisFailureTermSet_short == {"failed", "errored"}

travisFailureTermSet == {"failed", "errored", "canceled"}

travisDoneTermSet == {"passed", "failed", "errored", "canceled"}

contains(set, item) == item \in set

EmptyBuild == [ID |-> "", PreviousState |-> "", State |-> ""]

\* ------------------------------------------------------------------ inputs
Digits == {"0", "1", "2", "3", "4", "5", "6", "7", "8", "9"}

DigitVal == [d \in Digits |->
               CASE d = "0" -> 0 [] d = "1" -> 1 [] d = "2" -> 2 [] d = "3" -> 3
                 [] d = "4" -> 4 [] d = "5" -> 5 [] d = "6" -> 6 [] d = "7" -> 7
                 [] d = "8" -> 8 [] d = "9" -> 9]

PollIntervalStrings ==
    {<<>>, <<"0">>, <<"-", "5">>, <<"+", "0">>, <<"a", "b", "c">>, <<"3", "x">>,
     <<"-">>}

\* the environment either lacks POLL_INTERVAL or holds a string for it
PollIntervalInputs ==
    {[set |-> FALSE, val |-> <<>>]}
    \cup {[set |-> TRUE, val |-> s] : s \in PollIntervalStrings}

States == {"", "created", "started", "passed", "failed", "errored", "canceled"}

BuildIDs == {"99", "100"}

PrevStates == {"", "passed"}

Builds == [ID : BuildIDs, PreviousState : PrevStates, State : States]

\* builds the provider reports while the job polls: a running build under
\* either id, a finished one under the first
PollBuilds ==
    {b \in Builds : /\ b.PreviousState = "passed"
                    /\ b.State \notin {"", "created"}
                    /\ b.State # "started" => b.ID = "99"}

SeqsUpTo(S, n) == UNION {[1..k -> S] : k \in 0..n}

\* what the HTTP exchange of getBuildStatus can produce
StatusErrors == {"send error", "decode error"}

StatusResponses(bs, n) ==
    {[kind |-> "err", err |-> e, builds |-> <<>>] : e \in StatusErrors}
    \cup {[kind |-> "ok", err |-> NoErr, builds |-> l] : l \in SeqsUpTo(bs, n)}

\* while the job polls the provider answers with one build at most
PollResponses ==
    {r \in StatusResponses(PollBuilds, MaxBuilds) : Len(r.builds) <= 1}

NoResp == [kind |-> "none", err |-> NoErr, builds |-> <<>>]

\* what the HTTP exchange of triggerBuild can produce
TriggerResponses ==
    {[kind |-> "err", err |-> e, id |-> ""] :
        e \in {"request error", "send error", "read error", "decode error"}}
    \cup {[kind |-> "ok", err |-> NoErr, id |-> i] : i \in {"42", ""}}

\* ---------------------------------------------------------- pure functions
\* l.Env(name, default): the variable's value, the default when it is not set
Env(e, default) == IF e.set THEN e.val ELSE default

RECURSIVE DigitsValue(_)
DigitsValue(s) ==
    IF s = <<>> THEN 0
    ELSE 10 * DigitsValue(SubSeq(s, 1, Len(s) - 1)) + DigitVal[s[Len(s)]]

\* strconv.Atoi: optional sign, then one or more decimal digits
Atoi(s) ==
    LET signed == s # <<>> /\ s[1] \in {"+", "-"}
        digits == IF signed THEN Tail(s) ELSE s
    IN  IF digits = <<>> \/ \E i \in 1..Len(digits) : digits[i] \notin Digits
        THEN [ok |-> FALSE, val |-> 0]
        ELSE [ok |-> TRUE,
              val |-> IF signed /\ s[1] = "-" THEN 0 - DigitsValue(digits)
                      ELSE DigitsValue(digits)]

\* triggerBuild: any failure of the exchange is returned with an empty id,
\* otherwise the decoded request.id (empty when the body carries none)
triggerBuild(r) ==
    IF r.kind = "err" THEN [requestID |-> "", err |-> r.err]
    ELSE [requestID |-> r.id, err |-> NoErr]

\* variant: the last decoded build is returned
getBuildStatus_last(r) ==
    IF r.kind = "err" THEN [b |-> EmptyBuild, err |-> r.err]
    ELSE IF Len(r.builds) > 0 THEN [b |-> r.builds[Len(r.builds)], err |-> NoErr]
    ELSE [b |-> EmptyBuild, err |-> NoBuildsErr]

\* getBuildStatus: the first decoded build, or an error
getBuildStatus(r) ==
    IF r.kind = "err" THEN [b |-> EmptyBuild, err |-> r.err]
    ELSE IF Len(r.builds) > 0 THEN [b |-> r.builds[1], err |-> NoErr]
    ELSE [b |-> EmptyBuild, err |-> NoBuildsErr]

\* the value of Execute's outer err at its final test: both calls assign
\* variables of their own if-scope (:=), the outer one keeps its zero value
ExecuteErr(tErr, pErr) == NoErr

\* variant: the received build is lost on the way out
RecvResult_zero(b) == [returned |-> TRUE, b |-> EmptyBuild, err |-> NoErr]

\* variant: the deadline branch returns no error
TimeoutResult_nil == [returned |-> TRUE, b |-> EmptyBuild, err |-> NoErr]

\* what pollForResult returns on each branch of its select
RecvResult(b) == [returned |-> TRUE, b |-> b, err |-> NoErr]

TimeoutResult == [returned |-> TRUE, b |-> EmptyBuild, err |-> TimeoutErr]

\* variant: every Done status is reported as a success
reportPath_done(status) ==
    IF contains(travisDoneTermSet, status) THEN "reportSuccess"
    ELSE "reportFailure"

\* reportStatus: which report path the status takes
reportPath(status) ==
    IF contains(travisSuccessTermSet, status) THEN "reportSuccess"
    ELSE "reportFailure"

\* variant: every fetched build is delivered
delivers_always(b) == TRUE

\* a poll tick delivers the fetched build when its state is a Done state
delivers(b) == contains(travisDoneTermSet, b.State)

Line(k, a) == [k |-> k, a |-> a]

\* variant: the previous state is reported
reportArgs_prev(b) == [buildID |-> b.ID, status |-> b.PreviousState]

\* the arguments Execute passes to reportStatus
reportArgs(b) == [buildID |-> b.ID, status |-> b.State]

\* variant: the notice is logged at every successful poll
noticeLines_always(sentID, b) == <<Line("started", b.ID)>>

\* the build-started notice of a successful poll: the build's ID, once
noticeLines(sentID, b) ==
    IF ~sentID THEN <<Line("started", b.ID)>> ELSE <<>>

\* variant: a failed poll ends the goroutine
afterTick_stop(err, b) ==
    IF err # NoErr THEN "none"
    ELSE IF delivers(b) THEN "send" ELSE "wait"

\* where the loop body goes after getBuildStatus: back to the range on an
\* error or a state that is not Done, on to c <- b otherwise
afterTick(err, b) ==
    IF err # NoErr THEN "wait"
    ELSE IF delivers(b) THEN "send" ELSE "wait"

\* the spec's Done set, for the history variable and the properties
DoneStates == {"passed", "failed", "errored", "canceled"}

\* ------------------------------------------------------------------- state
TypeOK ==
    /\ pollIntervalEnv \in PollIntervalInputs
    /\ pollInterval \in Int
    /\ pollRet.returned \in BOOLEAN
    /\ pc_fg \in {"main", "execute", "poll", "selectEnter", "parked", "recvd",
                  "timedout", "pollReturned", "reportStatus", "reportSuccess",
                  "reportFailure", "executeTail", "mainSelect", "exited"}
    /\ pc_bg \in {"none", "wait", "inFlight", "respArrived", "fetched", "send"}
    /\ triggerCalls \in 0..1
    /\ Len(c) <= ChanCap
    /\ sentBuildID \in BOOLEAN
    /\ tickerRunning \in BOOLEAN
    /\ tickC \in 0..TickCap
    /\ ticks \in 0..MaxTicks
    /\ selected \in {"none", "c", "deadline"}
    /\ sent \in Nat
    /\ exited \in BOOLEAN
    /\ exitCode \in {NoExit, 0, 1, 2}

InitCommon ==
    /\ trigErr = NoErr
    /\ c = <<>>
    /\ sentBuildID = FALSE
    /\ tickC = 0
    /\ bgB = EmptyBuild
    /\ bgErr = NoErr
    /\ selected = "none"
    /\ fgB = EmptyBuild
    /\ pollRet = [returned |-> FALSE, b |-> EmptyBuild, err |-> NoErr]
    /\ log = <<>>
    /\ sent = 0
    /\ firstDone = EmptyBuild
    /\ exited = FALSE
    /\ exitCode = NoExit

\* the process starts in main with some environment
Init ==
    /\ InitCommon
    /\ pollIntervalEnv \in PollIntervalInputs
    /\ pollInterval = 0
    /\ pc_fg = "main"
    /\ pc_bg = "none"
    /\ requestID = ""
    /\ triggerCalls = 0
    /\ tickerRunning = FALSE
    /\ ticks = 0
    /\ bgResp = NoResp
    /\ repID = ""
    /\ repState = ""

\* a job that has triggered its build, with POLL_INTERVAL not set
InitTriggered ==
    /\ InitCommon
    /\ pollIntervalEnv = [set |-> FALSE, val |-> <<>>]
    /\ pollInterval = 30
    /\ requestID = "42"
    /\ triggerCalls = 1

\* reportStatus is entered with any build id and any status
ReportIDs == BuildIDs \cup {"", "7", "8", "9"}

InitReport ==
    /\ InitTriggered
    /\ pc_fg = "reportStatus"
    /\ pc_bg = "none"
    /\ tickerRunning = FALSE
    /\ ticks = 0
    /\ bgResp = NoResp
    /\ repID \in ReportIDs
    /\ repState \in States

\* getBuildStatus has received any response to its first request
InitStatus ==
    /\ InitTriggered
    /\ pc_fg = "parked"
    /\ pc_bg = "respArrived"
    /\ tickerRunning = TRUE
    /\ ticks = 1
    /\ bgResp \in StatusResponses(Builds, MaxBuilds)
    /\ repID = ""
    /\ repState = ""

\* os.Exit(code): the process and all its goroutines are gone
Exit(code) ==
    /\ exited' = TRUE
    /\ exitCode' = code
    /\ pc_fg' = "exited"

\* ------------------------------------------------------------------- main
\* main: read POLL_INTERVAL, log.Fatal on a parse error, else build the Job
\* and enter Execute
MainStart ==
    /\ ~exited /\ pc_fg = "main"
    /\ LET r == Atoi(Env(pollIntervalEnv, DefaultPollInterval))
       IN  IF ~r.ok
           THEN /\ log' = Append(log, Line("fatal", "Failed to parse POLL_INTERVAL"))
                /\ Exit(1)
                /\ UNCHANGED pollInterval
           ELSE /\ log' = Append(log, Line("starting", ""))
                /\ pollInterval' = r.val
                /\ pc_fg' = "execute"
                /\ UNCHANGED exitVars
    /\ UNCHANGED <<pollIntervalEnv, trigVars, bgVars, tickVars, selVars,
                   repVars, c, sent>>

\* Execute, first call: triggerBuild
FgTriggerBuild ==
    /\ ~exited /\ pc_fg = "execute"
    /\ \E r \in TriggerResponses :
         LET t == triggerBuild(r)
         IN  /\ requestID' = t.requestID
             /\ trigErr' = t.err
             /\ triggerCalls' = IF r.err = "request error" THEN triggerCalls
                                ELSE triggerCalls + 1
             /\ pc_fg' = IF t.err = NoErr THEN "poll" ELSE "executeTail"
    /\ UNCHANGED <<envVars, bgVars, tickVars, selVars, repVars, exitVars, c,
                   sent, log>>

\* pollForResult up to the select: the channel, the ticker (NewTicker panics
\* on a non-positive interval) and the goroutine
FgPollStart ==
    /\ ~exited /\ pc_fg = "poll"
    /\ IF pollInterval <= 0
       THEN /\ log' = Append(log, Line("panic", "non-positive interval for NewTicker"))
            /\ Exit(2)
            /\ UNCHANGED <<c, sentBuildID, tickerRunning, pc_bg>>
       ELSE /\ c' = <<>>
            /\ sentBuildID' = FALSE
            /\ tickerRunning' = TRUE
            /\ pc_bg' = "wait"
            /\ pc_fg' = "selectEnter"
            /\ UNCHANGED <<log, exitVars>>
    /\ UNCHANGED <<envVars, trigVars, bgResp, bgB, bgErr, firstDone, tickC,
                   ticks, selVars, repVars, sent>>

\* variant: the select parks without looking into c first
FgSelectEnter_park ==
    /\ ~exited /\ pc_fg = "selectEnter"
    /\ pc_fg' = "parked"
    /\ UNCHANGED <<envVars, trigVars, bgVars, tickVars, selVars, repVars,
                   exitVars, c, sent, log>>

\* the select is entered: time.After arms the deadline timer; a build that
\* is already in c is received, otherwise the goroutine parks on both cases
FgSelectEnter ==
    /\ ~exited /\ pc_fg = "selectEnter"
    /\ IF Len(c) > 0
       THEN /\ fgB' = Head(c)
            /\ c' = Tail(c)
            /\ selected' = "c"
            /\ pc_fg' = "recvd"
       ELSE /\ pc_fg' = "parked"
            /\ UNCHANGED <<fgB, c, selected>>
    /\ UNCHANGED <<envVars, trigVars, bgVars, tickVars, pollRet, repVars,
                   exitVars, sent, log>>

\* variant: the select has no deadline case
DeadlineFire_off ==
    /\ FALSE
    /\ UNCHANGED vars

\* the 40 minute timer fires while the select is parked: its case is taken
DeadlineFire ==
    /\ ~exited /\ pc_fg = "parked"
    /\ selected' = "deadline"
    /\ pc_fg' = "timedout"
    /\ UNCHANGED <<envVars, trigVars, bgVars, tickVars, fgB, pollRet, repVars,
                   exitVars, c, sent, log>>

\* case b := <-c: ticker.Stop(); return b, nil
FgRecvReturn ==
    /\ ~exited /\ pc_fg = "recvd"
    /\ tickerRunning' = FALSE
    /\ pollRet' = RecvResult(fgB)
    /\ pc_fg' = "pollReturned"
    /\ UNCHANGED <<envVars, trigVars, bgVars, tickC, ticks, selected, fgB,
                   repVars, exitVars, c, sent, log>>

\* case <-time.After(...): ticker.Stop(); return build{}, timeout error
FgTimeoutReturn ==
    /\ ~exited /\ pc_fg = "timedout"
    /\ tickerRunning' = FALSE
    /\ pollRet' = TimeoutResult
    /\ pc_fg' = "pollReturned"
    /\ UNCHANGED <<envVars, trigVars, bgVars, tickC, ticks, selected, fgB,
                   repVars, exitVars, c, sent, log>>

\* Execute, after pollForResult: reportStatus(string(b.ID), b.State) when the
\* inner err is nil
FgAfterPoll ==
    /\ ~exited /\ pc_fg = "pollReturned"
    /\ IF pollRet.err = NoErr
       THEN /\ repID' = reportArgs(pollRet.b).buildID
            /\ repState' = reportArgs(pollRet.b).status
            /\ pc_fg' = "reportStatus"
       ELSE /\ pc_fg' = "executeTail"
            /\ UNCHANGED repVars
    /\ UNCHANGED <<envVars, trigVars, bgVars, tickVars, selVars, exitVars, c,
                   sent, log>>

\* reportStatus: the success test
FgReportStatus ==
    /\ ~exited /\ pc_fg = "reportStatus"
    /\ pc_fg' = reportPath(repState)
    /\ UNCHANGED <<envVars, trigVars, bgVars, tickVars, selVars, repVars,
                   exitVars, c, sent, log>>

\* reportSuccess: log, os.Exit(0)
FgReportSuccess ==
    /\ ~exited /\ pc_fg = "reportSuccess"
    /\ log' = Append(log, Line("reportSuccess", repID))
    /\ Exit(0)
    /\ UNCHANGED <<envVars, trigVars, bgVars, tickVars, selVars, repVars, c,
                   sent>>

\* variant: the failure path exits with the success status
FgReportFailure_zero ==
    /\ ~exited /\ pc_fg = "reportFailure"
    /\ log' = Append(log, Line("reportFailure", repID))
    /\ Exit(0)
    /\ UNCHANGED <<envVars, trigVars, bgVars, tickVars, selVars, repVars, c,
                   sent>>

\* reportFailure: log, os.Exit(1)
FgReportFailure ==
    /\ ~exited /\ pc_fg = "reportFailure"
    /\ log' = Append(log, Line("reportFailure", repID))
    /\ Exit(1)
    /\ UNCHANGED <<envVars, trigVars, bgVars, tickVars, selVars, repVars, c,
                   sent>>

\* Execute, final test of the outer err, then back in main at select {}
FgExecuteTail ==
    /\ ~exited /\ pc_fg = "executeTail"
    /\ IF ExecuteErr(trigErr, pollRet.err) # NoErr
       THEN /\ log' = Append(log, Line("fatal", ExecuteErr(trigErr, pollRet.err)))
            /\ Exit(1)
       ELSE /\ pc_fg' = "mainSelect"
            /\ UNCHANGED <<log, exitVars>>
    /\ UNCHANGED <<envVars, trigVars, bgVars, tickVars, selVars, repVars, c,
                   sent>>

\* main is parked in select {} and no goroutine can run again: the Go
\* runtime may end the process ("all goroutines are asleep - deadlock!",
\* exit status 2)
RuntimeDeadlock ==
    /\ ~exited /\ pc_fg = "mainSelect"
    /\ \/ pc_bg = "none"
       \/ pc_bg = "wait" /\ tickC = 0 /\ ~tickerRunning
       \/ pc_bg = "send" /\ Len(c) >= ChanCap
    /\ Exit(2)
    /\ UNCHANGED <<envVars, trigVars, bgVars, tickVars, selVars, repVars, c,
                   sent, log>>

\* ------------------------------------------------- the ticker goroutine
\* the runtime sends a tick into ticker.C; a tick that finds it full is lost
TickerFire ==
    /\ ~exited /\ tickerRunning
    /\ tickC < TickCap
    /\ ticks < MaxTicks
    /\ tickC' = tickC + 1
    /\ ticks' = ticks + 1
    /\ UNCHANGED <<envVars, trigVars, bgVars, tickerRunning, selVars, repVars,
                   exitVars, pc_fg, c, sent, log>>

\* variant: a tick starts a poll while the previous call is in flight
BgTick_overlap ==
    /\ ~exited /\ pc_bg \in {"wait", "inFlight"}
    /\ tickC > 0
    /\ tickC' = tickC - 1
    /\ log' = log \o <<Line("polling", ""), Line("fetching", requestID)>>
    /\ pc_bg' = "inFlight"
    /\ UNCHANGED <<envVars, trigVars, sentBuildID, bgResp, bgB, bgErr,
                   firstDone, tickerRunning, ticks, selVars, repVars, exitVars,
                   pc_fg, c, sent>>

\* for range ticker.C: a tick is received, the poll is logged and
\* getBuildStatus sends its request
BgTick ==
    /\ ~exited /\ pc_bg = "wait"
    /\ tickC > 0
    /\ tickC' = tickC - 1
    /\ log' = log \o <<Line("polling", ""), Line("fetching", requestID)>>
    /\ pc_bg' = "inFlight"
    /\ UNCHANGED <<envVars, trigVars, sentBuildID, bgResp, bgB, bgErr,
                   firstDone, tickerRunning, ticks, selVars, repVars, exitVars,
                   pc_fg, c, sent>>

\* the HTTP exchange of getBuildStatus ends
BgRespArrive ==
    /\ ~exited /\ pc_bg = "inFlight"
    /\ \E r \in PollResponses : bgResp' = r
    /\ pc_bg' = "respArrived"
    /\ UNCHANGED <<envVars, trigVars, sentBuildID, bgB, bgErr, firstDone,
                   tickVars, selVars, repVars, exitVars, pc_fg, c, sent, log>>

\* getBuildStatus returns b, err
BgFetchReturn ==
    /\ ~exited /\ pc_bg = "respArrived"
    /\ LET r == getBuildStatus(bgResp)
       IN  /\ bgB' = r.b
           /\ bgErr' = r.err
           /\ firstDone' = IF firstDone = EmptyBuild /\ r.err = NoErr
                              /\ r.b.State \in DoneStates
                           THEN r.b ELSE firstDone
    /\ pc_bg' = "fetched"
    /\ UNCHANGED <<envVars, trigVars, sentBuildID, bgResp, tickVars, selVars,
                   repVars, exitVars, pc_fg, c, sent, log>>

\* the body of the loop after getBuildStatus: the error is logged, or the
\* build-started notice is logged once and a Done build goes on to c <- b
BgProcess ==
    /\ ~exited /\ pc_bg = "fetched"
    /\ IF bgErr # NoErr
       THEN /\ log' = Append(log, Line("error", bgErr))
            /\ UNCHANGED sentBuildID
       ELSE /\ log' = log \o noticeLines(sentBuildID, bgB)
            /\ sentBuildID' = TRUE
    /\ pc_bg' = afterTick(bgErr, bgB)
    /\ IF afterTick(bgErr, bgB) = "send"
       THEN UNCHANGED <<bgB, bgErr>>
       ELSE /\ bgB' = EmptyBuild
            /\ bgErr' = NoErr
    /\ bgResp' = NoResp
    /\ UNCHANGED <<envVars, trigVars, firstDone, tickVars, selVars, repVars,
                   exitVars, pc_fg, c, sent>>

\* c <- b: handed to the select parked on c, else buffered while c has room,
\* else the goroutine stays blocked
BgSend ==
    /\ ~exited /\ pc_bg = "send"
    /\ IF pc_fg = "parked"
       THEN /\ fgB' = bgB
            /\ selected' = "c"
            /\ pc_fg' = "recvd"
            /\ UNCHANGED c
       ELSE /\ Len(c) < ChanCap
            /\ c' = Append(c, bgB)
            /\ UNCHANGED <<fgB, selected, pc_fg>>
    /\ sent' = sent + 1
    /\ pc_bg' = "wait"
    /\ bgB' = EmptyBuild
    /\ bgErr' = NoErr
    /\ UNCHANGED <<envVars, trigVars, sentBuildID, bgResp, firstDone, tickVars,
                   pollRet, repVars, exitVars, log>>

\* -------------------------------------------------------- specifications
Next ==
    \/ MainStart
    \/ FgTriggerBuild
    \/ FgPollStart
    \/ FgSelectEnter
    \/ DeadlineFire
    \/ FgRecvReturn
    \/ FgTimeoutReturn
    \/ FgAfterPoll
    \/ FgReportStatus
    \/ FgReportSuccess
    \/ FgReportFailure
    \/ FgExecuteTail
    \/ RuntimeDeadlock
    \/ TickerFire
    \/ BgTick
    \/ BgRespArrive
    \/ BgFetchReturn
    \/ BgProcess
    \/ BgSend

Spec == Init /\ [][Next]_vars

\* reportStatus on its own, over every status
NextReport == FgReportStatus \/ FgReportSuccess \/ FgReportFailure

SpecReport == InitReport /\ [][NextReport]_vars

\* getBuildStatus on its own, over every response
NextStatus == BgFetchReturn

SpecStatus == InitStatus /\ [][NextStatus]_vars

\* the main goroutine's steps
FgStep ==
    \/ MainStart
    \/ FgTriggerBuild
    \/ FgPollStart
    \/ FgSelectEnter
    \/ FgRecvReturn
    \/ FgTimeoutReturn
    \/ FgAfterPoll
    \/ FgReportStatus
    \/ FgReportSuccess
    \/ FgReportFailure
    \/ FgExecuteTail

\* the ticker goroutine's steps
BgStep == BgTick \/ BgRespArrive \/ BgFetchReturn \/ BgProcess \/ BgSend

\* the scheduler runs a goroutine that can run, the HTTP client's timeout ends
\* every exchange, and an armed deadline timer fires
FairSpec ==
    Spec /\ WF_vars(FgStep) /\ WF_vars(BgStep) /\ WF_vars(DeadlineFire)

\* ------------------------------------------------------------- properties
HasLine(k) == \E i \in DOMAIN log : log[i].k = k

Reported == HasLine("reportSuccess") \/ HasLine("reportFailure")

\* getBuildStatus calls started so far
PollCalls == Cardinality({i \in DOMAIN log : log[i].k = "fetching"})

IsPollLine(l) == l.k \in {"polling", "fetching", "error", "started"}

PollLoopLog == SelectSeq(log, IsPollLine)

\* C1: reportStatus ends the process with status 0 exactly when its status
\* is "passed" and with status 1 for every other status, Done or not; it
\* always gets to its exit, and never runs both report paths
C1_ReportExit ==
    /\ pc_fg \in {"reportStatus", "reportSuccess", "reportFailure"}
         => ENABLED NextReport
    /\ pc_fg = "reportSuccess" => repState = "passed"
    /\ pc_fg = "reportFailure" => repState # "passed"
    /\ (exited /\ Reported)
         => /\ exitCode = (IF repState = "passed" THEN 0 ELSE 1)
            /\ ~(HasLine("reportSuccess") /\ HasLine("reportFailure"))

C1_Witness ==
    /\ exited /\ exitCode = 1 /\ HasLine("reportFailure")
    /\ repState = "started"

\* C10: on a decodable response getBuildStatus returns the first build of
\* the list, field by field, with no error, and the empty build with the
\* "no builds found" error when the list is empty
C10_FirstBuild ==
    (pc_bg = "fetched" /\ bgResp.kind = "ok")
      => IF Len(bgResp.builds) >= 1
         THEN /\ bgB.ID = Head(bgResp.builds).ID
              /\ bgB.PreviousState = Head(bgResp.builds).PreviousState
              /\ bgB.State = Head(bgResp.builds).State
              /\ bgErr = "nil"
         ELSE /\ bgB = [ID |-> "", PreviousState |-> "", State |-> ""]
              /\ bgErr = "no builds found"

C10_Witness ==
    /\ pc_bg = "fetched" /\ bgResp.kind = "ok"
    /\ Len(bgResp.builds) = 2
    /\ bgResp.builds[1].ID # bgResp.builds[2].ID
    /\ bgResp.builds[1].State = "passed"
    /\ bgB = bgResp.builds[1]

\* POLL_INTERVAL is set to a string that is not a positive integer
BadPollInterval ==
    /\ pollIntervalEnv.set
    /\ ~(Atoi(pollIntervalEnv.val).ok /\ Atoi(pollIntervalEnv.val).val > 0)

\* the exit status the first Done build fetched calls for
DoneExitCode == IF firstDone.State = "passed" THEN 0 ELSE 1

\* C2: after triggerBuild returned an error no status poll is issued, the
\* error is logged at fatal severity and the process ends with status 1; it
\* does not go back to main to wait there
C2_TriggerErrorFatal ==
    trigErr # "nil"
      => /\ PollCalls = 0
         /\ pc_bg = "none"
         /\ pc_fg # "mainSelect"
         /\ exited => (exitCode = 1 /\ HasLine("fatal"))

\* C3: when the deadline ends a poll loop whose polls all returned a state
\* that is not Done, the process ends with status 1 on the fatal-log path
\* and reportStatus is not invoked
C3_TimeoutFatal ==
    (selected = "deadline" /\ sentBuildID /\ firstDone = EmptyBuild
       /\ ~HasLine("error"))
      => /\ ~Reported
         /\ pc_fg \notin {"reportStatus", "reportSuccess", "reportFailure"}
         /\ pc_fg # "mainSelect"
         /\ exited => (exitCode = 1 /\ HasLine("fatal"))

\* C4: once a poll has delivered the first Done build before the deadline
\* fired, the process exits, with status 0 when that build's state is
\* "passed" and 1 when it is "failed", "errored" or "canceled"; every step
\* to that exit is the main goroutine's own, so no later poll is waited for
C4_ExitAfterDone ==
    /\ [](Reported => (firstDone # EmptyBuild /\ repState = firstDone.State
                         /\ repID = firstDone.ID))
    /\ []((exited /\ Reported) => exitCode = DoneExitCode)
    /\ []((selected = "c" /\ ~exited) => ENABLED FgStep)
    /\ (sent >= 1 /\ selected # "deadline")
         ~> (exited /\ Reported /\ exitCode = DoneExitCode)

C4_Witness ==
    /\ exited /\ exitCode = 0 /\ HasLine("reportSuccess")
    /\ firstDone.State = "passed"
    /\ PollCalls = 3 /\ ~HasLine("error")
    /\ trigErr = "nil"

\* C5: a tick that fetched a state outside the Done set puts nothing in the
\* handoff and goes back to wait for the next tick; whatever is in the
\* handoff, was received from it, or is returned with a nil error has a
\* Done state
C5_NonDoneKeepsPolling ==
    /\ [](/\ \A i \in DOMAIN c : c[i].State \in DoneStates
          /\ selected = "c" => fgB.State \in DoneStates
          /\ (pollRet.returned /\ pollRet.err = "nil")
               => pollRet.b.State \in DoneStates)
    /\ [][(pc_bg = "fetched" /\ bgErr = "nil" /\ bgB.State \notin DoneStates
             /\ pc_bg' # pc_bg)
            => /\ pc_bg' = "wait"
               /\ c' = c /\ sent' = sent
               /\ selected' = selected /\ pc_fg' = pc_fg
               /\ tickerRunning' = tickerRunning]_vars

C5_Witness ==
    /\ pc_bg = "wait" /\ sentBuildID /\ firstDone = EmptyBuild
    /\ sent = 0 /\ c = <<>> /\ pc_fg = "parked" /\ tickerRunning
    /\ PollCalls = 2 /\ ~HasLine("error")

\* C6: when the select of pollForResult resolves with the deadline,
\* pollForResult returns the empty build together with the timeout error,
\* and it returns the timeout error in no other case
C6_TimeoutResult ==
    /\ pc_fg = "timedout" => selected = "deadline"
    /\ pollRet.returned
         => IF selected = "deadline"
            THEN /\ pollRet.b.ID = "" /\ pollRet.b.PreviousState = ""
                 /\ pollRet.b.State = ""
                 /\ pollRet.err = "timed out waiting for build result"
            ELSE pollRet.err = "nil"

C6_Witness ==
    /\ pollRet.returned /\ selected = "deadline"
    /\ sent = 0 /\ PollCalls >= 1 /\ firstDone = EmptyBuild

\* C7: once pollForResult has returned the timeout error the poll loop
\* starts no getBuildStatus call, completes none and logs nothing
C7_QuietAfterTimeout ==
    [][(pollRet.returned /\ pollRet.err # "nil")
         => /\ PollLoopLog' = PollLoopLog
            /\ pc_bg' # pc_bg => pc_bg' \notin {"inFlight", "respArrived", "fetched"}]_vars

\* C8: while pollForResult runs at most one build is sent into the handoff,
\* and no tick reaches the send after one build has been sent
C8_SingleSend ==
    ~pollRet.returned
      => /\ sent <= 1
         /\ ~(pc_bg = "send" /\ sent >= 1)

\* C9: with POLL_INTERVAL set to anything but a positive integer the
\* process ends at startup with the configuration fatal error, before the
\* trigger request or any other network call
C9_BadIntervalFatal ==
    BadPollInterval
      => /\ triggerCalls = 0
         /\ PollCalls = 0
         /\ exited => (exitCode = 1 /\ log = <<Line("fatal", "Failed to parse POLL_INTERVAL")>>)

ErrorLines == Cardinality({i \in DOMAIN log : log[i].k = "error"})

\* C11: a tick whose getBuildStatus failed logs the error, delivers nothing
\* and goes back to wait for the next tick with the ticker untouched; a
\* Done build fetched by a later tick goes on to the send, which is not
\* blocked while nothing was sent, and puts that build into the handoff
C11_FailedTickKeepsPolling ==
    /\ [][(pc_bg = "fetched" /\ bgErr # "nil" /\ pc_bg' # pc_bg)
            => /\ pc_bg' = "wait"
               /\ log' = Append(log, [k |-> "error", a |-> bgErr])
               /\ c' = c /\ sent' = sent
               /\ selected' = selected /\ pc_fg' = pc_fg
               /\ tickerRunning' = tickerRunning /\ tickC' = tickC]_vars
    /\ []((pc_bg = "wait" /\ tickC > 0 /\ ~exited) => ENABLED BgTick)
    /\ [][(pc_bg = "fetched" /\ bgErr = "nil" /\ bgB.State \in DoneStates
             /\ ErrorLines >= 1 /\ pc_bg' # pc_bg)
            => (pc_bg' = "send" /\ bgB' = bgB)]_vars
    /\ []((pc_bg = "send" /\ sent = 0 /\ ~exited) => ENABLED BgSend)
    /\ [][(pc_bg = "send" /\ pc_bg' # pc_bg)
            => /\ sent' = sent + 1
               /\ (c' = Append(c, bgB) \/ (selected' = "c" /\ fgB' = bgB))]_vars

C11_Witness ==
    /\ ErrorLines = 2 /\ PollCalls = 3
    /\ log[Len(log)].k # "error"
    /\ sent = 1 /\ selected = "c" /\ fgB = firstDone
    /\ fgB.State = "passed"

\* C12: once a tick has sent a Done build into the handoff, no tick fires
\* and no getBuildStatus call is issued before pollForResult returns
C12_NoPollAfterDelivery ==
    [][(sent >= 1 /\ ~pollRet.returned)
         => (ticks' = ticks /\ PollCalls' = PollCalls)]_vars

\* C13: a Done build that is put into the handoff before the deadline fired
\* resolves the select: the deadline case is never taken once a build was
\* sent, the main goroutine's way to its return is never blocked, and
\* pollForResult returns that build with a nil error
C13_DeliveredWins ==
    /\ [][(selected # "deadline" /\ selected' = "deadline") => sent = 0]_vars
    /\ [][(sent = 0 /\ sent' = 1 /\ selected # "deadline")
            => \/ selected' = "c" /\ fgB' = bgB /\ pc_fg' = "recvd"
               \/ pc_fg' = "selectEnter" /\ c' = <<bgB>>]_vars
    /\ []((pc_fg = "selectEnter" /\ c # <<>>) => ~ENABLED DeadlineFire)
    /\ [](selected = "c" => (fgB = firstDone /\ fgB.State \in DoneStates))
    /\ []((pollRet.returned /\ selected = "c")
            => (pollRet.b = firstDone /\ pollRet.err = "nil"))
    /\ []((sent >= 1 /\ selected # "deadline" /\ ~pollRet.returned)
            => (pc_fg \in {"selectEnter", "recvd"} /\ ENABLED FgStep))

C13_Witness ==
    /\ pollRet.returned /\ pollRet.err = "nil"
    /\ pollRet.b = firstDone /\ pollRet.b.State = "failed"
    /\ pc_fg = "pollReturned" /\ ErrorLines = 0 /\ PollCalls = 2

StartedLines == {i \in DOMAIN log : log[i].k = "started"}

\* C14: the build-started notice is logged at most once, by the first tick
\* whose getBuildStatus succeeded and by no failed tick; it carries the ID
\* of the build that tick fetched, not the RequestID, and it is in the log
\* before any build is sent into the handoff
C14_NoticeOnce ==
    /\ [](/\ Cardinality(StartedLines) <= 1
          /\ sentBuildID <=> StartedLines # {}
          /\ \A i \in StartedLines : log[i].a \in BuildIDs /\ log[i].a # requestID
          /\ (sent >= 1 \/ pc_bg = "send") => StartedLines # {})
    /\ [][(pc_bg = "fetched" /\ pc_bg' # pc_bg)
            => IF bgErr = "nil" /\ StartedLines = {}
               THEN log' = Append(log, [k |-> "started", a |-> bgB.ID])
               ELSE Cardinality(StartedLines') = Cardinality(StartedLines)]_vars
    /\ [][(pc_bg # "fetched" \/ pc_bg' = pc_bg)
            => Cardinality(StartedLines') = Cardinality(StartedLines)]_vars

C14_Witness ==
    /\ PollCalls = 3 /\ ErrorLines = 1 /\ log[4].k = "error"
    /\ Cardinality(StartedLines) = 1
    /\ \E i \in StartedLines : log[i].a = "100"
    /\ pc_bg = "send" /\ bgB.ID = "99"

\* C15: polls are sequential: a getBuildStatus call starts only when the
\* goroutine waits at the range, with the previous call returned and
\* processed; a tick that fires during a call waits in ticker.C
C15_SequentialPolls ==
    /\ [][PollCalls' # PollCalls
            => /\ PollCalls' = PollCalls + 1
               /\ pc_bg = "wait" /\ pc_bg' = "inFlight"
               /\ bgResp = NoResp /\ bgB = EmptyBuild /\ bgErr = "nil"]_vars
    /\ [][(pc_bg \in {"inFlight", "respArrived", "fetched", "send"}
             /\ tickC' > tickC)
            => (pc_bg' = pc_bg /\ log' = log)]_vars

C15_Witness ==
    /\ pc_bg = "inFlight" /\ tickC = 1 /\ PollCalls = 2 /\ ticks = 3

OneOutcome(state) ==
    (state \in travisSuccessTermSet) # (state \in travisFailureTermSet)

C17_TablesPartition ==
    /\ travisDoneTermSet = travisSuccessTermSet \cup travisFailureTermSet
    /\ travisSuccessTermSet \cap travisFailureTermSet = {}
    /\ \A i \in DOMAIN c : OneOutcome(c[i].State)
    /\ selected = "c" => OneOutcome(fgB.State)
    /\ (pollRet.returned /\ pollRet.err = "nil") => OneOutcome(pollRet.b.State)

C17_Witness ==
    /\ pollRet.returned /\ pollRet.err = "nil" /\ pollRet.b.State = "canceled"

C19_ZeroOnlyIfPassed ==
    /\ (exited /\ exitCode = 0)
         => /\ trigErr = "nil"
            /\ firstDone.State = "passed"
            /\ selected = "c"
            /\ pollRet.returned /\ pollRet.err = "nil" /\ pollRet.b = firstDone
            /\ HasLine("reportSuccess") /\ ~HasLine("reportFailure")
    /\ (selected = "deadline" \/ trigErr # "nil") => exitCode # 0
    /\ (firstDone.State \in {"failed", "errored", "canceled"}) => exitCode # 0

C19_Witness ==
    /\ selected = "deadline" /\ pollRet.returned
    /\ firstDone.State = "passed" /\ c = <<firstDone>>
    /\ pc_fg = "mainSelect" /\ ~exited

\* C20: pollForResult and getBuildStatus are entered with a RequestID that
\* is not empty
C20_NonEmptyRequestID ==
    /\ (pc_fg \in {"poll", "selectEnter", "parked", "recvd", "timedout"}
          \/ pc_bg # "none")
         => requestID # ""
    /\ \A i \in DOMAIN log : log[i].k = "fetching" => log[i].a # ""

====
